---- MODULE Spec2Model ----
(***************************************************************************)
(* The mesh viewer's load path: the OBJ/MTL scan, the texture resolver,    *)
(* the mesh load with its texture fallback, and the GUI handlers around    *)
(* them (src/testing.py, src/GUI_Application.py, src/new.py).              *)
(*                                                                         *)
(* Text is a sequence of tokens: the separators "/", ".", " " and TAB are  *)
(* tokens of their own, every other token is a run of characters holding   *)
(* none of them.  A keyword (mtllib, map_Kd, vt) is always a token of its  *)
(* own, so "starts with the keyword" is "the first token is the keyword".  *)
(* Paths follow posixpath; the file system is case-sensitive: two paths    *)
(* are the same file only when they are the same token sequence.           *)
(***************************************************************************)
EXTENDS Integers, Sequences, FiniteSets, TLC

\* fs: the file system; app: which program of the repository runs;
\* mesh, mesh_file: the window's fields; ui: the event loop's condition;
\* act: what the last handler (or function application) did.
VARIABLES fs, app, mesh, mesh_file, ui, act

vars == <<fs, app, mesh, mesh_file, ui, act>>

\* ------------------------------------------------------------ bounds
\* Lines of a mesh descriptor, lines of a material file, texture files on
\* disk, texture references handed to the stand-alone search.
MaxSessionLines == 1
MaxObjLines == 2
MaxMtlLines == 2
MaxTexFiles == 2
MaxRefs == 2
MaxImgCalls == 2

\* ------------------------------------------------------------ text
SEP == "/"
DOT == "."
SP == " "
TAB == "\t"
Whitespace == {SP, TAB}

Max(S) == CHOOSE x \in S : \A y \in S : y <= x
Min(S) == CHOOSE x \in S : \A y \in S : x <= y

\* An assignment to a local: F applied to the value of v, computed once.
Bind(v, F(_)) == CHOOSE r \in {F(x) : x \in {v}} : TRUE

\* str.rfind, 1-based: the last index of token c, 0 when there is none.
RFind(s, c) ==
    LET I == {i \in 1..Len(s) : s[i] = c}
    IN IF I = {} THEN 0 ELSE Max(I)

\* str.find, 1-based: the first index of token c, 0 when there is none.
Find(s, c) ==
    LET I == {i \in 1..Len(s) : s[i] = c}
    IN IF I = {} THEN 0 ELSE Min(I)

\* str.strip(): white space removed at both ends.
Strip(s) ==
    LET I == {i \in 1..Len(s) : s[i] \notin Whitespace}
    IN IF I = {} THEN <<>> ELSE SubSeq(s, Min(I), Max(I))

\* str.startswith(keyword).
StartsWith(s, kw) == Len(s) >= 1 /\ s[1] = kw

\* line.split(' ', 1): one or two parts, split at the first space.
Split1(s) ==
    LET i == Find(s, SP)
    IN IF i = 0 THEN <<s>>
       ELSE <<SubSeq(s, 1, i - 1), SubSeq(s, i + 1, Len(s))>>

\* ------------------------------------------------------------ paths
\* os.path.join(a, b)
join(a, b) ==
    IF Len(b) >= 1 /\ b[1] = SEP THEN b
    ELSE IF a = <<>> \/ a[Len(a)] = SEP THEN a \o b
    ELSE a \o <<SEP>> \o b

\* os.path.basename(p)
basename(p) == SubSeq(p, RFind(p, SEP) + 1, Len(p))

\* str.rstrip('/')
RStripSep(s) ==
    LET I == {i \in 1..Len(s) : s[i] # SEP}
    IN IF I = {} THEN <<>> ELSE SubSeq(s, 1, Max(I))

\* os.path.dirname(p)
dirname(p) ==
    LET head == SubSeq(p, 1, RFind(p, SEP))
    IN IF head # <<>> /\ (\E i \in 1..Len(head) : head[i] # SEP)
       THEN RStripSep(head)
       ELSE head

\* A splitext that never finds an extension.
splitext_keep(p) == <<p, <<>>>>

\* os.path.splitext(p): <<root, ext>>.  The extension starts at the last dot
\* of the last component, unless only dots precede it in that component.
splitext(p) ==
    LET sepIndex == RFind(p, SEP)
        dotIndex == RFind(p, DOT)
    IN IF dotIndex > sepIndex
          /\ \E k \in (sepIndex + 1)..(dotIndex - 1) : p[k] # DOT
       THEN <<SubSeq(p, 1, dotIndex - 1), SubSeq(p, dotIndex, Len(p))>>
       ELSE <<p, <<>>>>

\* ------------------------------------------------------------ file system
\* fs.files: the paths that exist (os.path.exists); fs.text: the lines of the
\* files that open() can read as text.  A path that exists and has no text is
\* a directory or a file the process may not open: open() raises on it.
exists(p) == p \in fs.files
Readable(p) == p \in DOMAIN fs.text

\* The absent result (None); an empty path is falsy in the code's tests too.
NoPath == <<>>

\* One line of the status log: a message kind and its argument.
Msg(k, a) == [k |-> k, a |-> a]

\* ------------------------------------------------------------ texture resolver
\* The extension list with .png tried before .jpg.
extensions_png_first ==
    << <<DOT, "png">>, <<DOT, "jpeg">>, <<DOT, "jpg">>, <<DOT, "bmp">>,
       <<DOT, "tga">>, <<DOT, "JPG">>, <<DOT, "JPEG">>, <<DOT, "PNG">> >>

extensions ==
    << <<DOT, "jpg">>, <<DOT, "jpeg">>, <<DOT, "png">>, <<DOT, "bmp">>,
       <<DOT, "tga">>, <<DOT, "JPG">>, <<DOT, "JPEG">>, <<DOT, "PNG">> >>

\* The list without the flattened candidate.
possible_paths_no_basename(obj_dir, texture_ref) ==
    LET base_name == splitext(texture_ref)[1]
    IN << join(obj_dir, texture_ref) >>
       \o [i \in 1..Len(extensions) |-> join(obj_dir, base_name \o extensions[i])]

\* The list the resolver builds before it probes anything.
possible_paths(obj_dir, texture_ref) ==
    LET base_name == splitext(texture_ref)[1]
    IN << join(obj_dir, texture_ref), join(obj_dir, basename(texture_ref)) >>
       \o [i \in 1..Len(extensions) |-> join(obj_dir, base_name \o extensions[i])]

\* for test_path in possible_paths: if os.path.exists(test_path): ...
\* The index of the path the loop stops at, 0 when it runs to the end.
RECURSIVE ProbeLoop(_, _)
ProbeLoop(paths, i) ==
    IF i > Len(paths) THEN 0
    ELSE IF exists(paths[i]) THEN i
    ELSE ProbeLoop(paths, i + 1)

\* A resolver that falls back to its last candidate instead of None.
find_texture_file_last(obj_dir, texture_ref) ==
    LET paths == possible_paths(obj_dir, texture_ref)
        hit == ProbeLoop(paths, 1)
    IN IF hit = 0 THEN paths[Len(paths)] ELSE paths[hit]

find_texture_file(obj_dir, texture_ref) ==
    LET paths == possible_paths(obj_dir, texture_ref)
        hit == ProbeLoop(paths, 1)
    IN IF hit = 0 THEN NoPath ELSE paths[hit]

\* The os.path.exists calls one resolution makes, in order.
ProbesOf(obj_dir, texture_ref) ==
    LET paths == possible_paths(obj_dir, texture_ref)
        hit == ProbeLoop(paths, 1)
    IN IF hit = 0 THEN paths ELSE SubSeq(paths, 1, hit)

\* The stand-alone loader's search over all references: it stops at the first
\* reference that resolves.
RECURSIVE InlineSearch(_, _, _)
InlineSearch(obj_dir, texture_files, probes) ==
    IF texture_files = <<>> THEN [found |-> NoPath, probes |-> probes]
    ELSE LET ref == Head(texture_files)
             paths == possible_paths(obj_dir, ref)
             hit == ProbeLoop(paths, 1)
         IN IF hit # 0 /\ paths[hit] # NoPath
            THEN [found |-> paths[hit],
                  probes |-> probes \o SubSeq(paths, 1, hit)]
            ELSE InlineSearch(obj_dir, Tail(texture_files), probes \o paths)

\* ------------------------------------------------------------ descriptor scan
\* The body of "for line in f" over a mesh descriptor.  A keyword line with
\* no space after the keyword makes split(' ', 1)[1] raise IndexError, which
\* ends the scan: err is set and the lines after it are not read.
RECURSIVE ScanObjLines(_, _)
ScanObjLines(lines, st) ==
    IF lines = <<>> THEN st
    ELSE LET line == Strip(Head(lines))
         IN IF StartsWith(line, "mtllib")
            THEN IF Len(Split1(line)) < 2
                 THEN [st EXCEPT !.err = TRUE]
                 ELSE LET mtl_file == Split1(line)[2]
                      IN ScanObjLines(Tail(lines),
                            [st EXCEPT !.mtl_files = Append(@, mtl_file),
                                       !.log = Append(@, Msg("found_mtl", mtl_file))])
            ELSE IF StartsWith(line, "vt")
            THEN ScanObjLines(Tail(lines), [st EXCEPT !.has_texture_coords = TRUE])
            ELSE ScanObjLines(Tail(lines), st)

\* A step 1 that forgets what it collected when the scan fails.
AnalyzeObj_discard(obj_path) ==
    LET st0 == [mtl_files |-> <<>>, has_texture_coords |-> FALSE,
                log |-> <<>>, err |-> FALSE]
        st == IF Readable(obj_path)
              THEN ScanObjLines(fs.text[obj_path], st0)
              ELSE [st0 EXCEPT !.err = TRUE]
    IN IF st.err
       THEN [st0 EXCEPT !.err = TRUE, !.log = <<Msg("warn_obj", obj_path)>>]
       ELSE st

\* Step 1: open the descriptor and scan it inside try/except; a failure is
\* logged as a warning and what was collected before it is kept.
AnalyzeObj(obj_path) ==
    LET st0 == [mtl_files |-> <<>>, has_texture_coords |-> FALSE,
                log |-> <<>>, err |-> FALSE]
        st == IF Readable(obj_path)
              THEN ScanObjLines(fs.text[obj_path], st0)
              ELSE [st0 EXCEPT !.err = TRUE]
    IN IF st.err
       THEN [st EXCEPT !.log = Append(@, Msg("warn_obj", obj_path))]
       ELSE st

\* A scan that takes the last space-separated word of the line as the
\* reference: the map options are tokenized away.
RECURSIVE ScanMtlLines_last_word(_, _)
ScanMtlLines_last_word(lines, st) ==
    IF lines = <<>> THEN st
    ELSE LET line == Strip(Head(lines))
         IN IF StartsWith(line, "map_Kd")
            THEN IF Len(Split1(line)) < 2
                 THEN [st EXCEPT !.err = TRUE]
                 ELSE LET texture_file == SubSeq(line, RFind(line, SP) + 1, Len(line))
                      IN ScanMtlLines_last_word(Tail(lines),
                            [st EXCEPT !.texture_paths = Append(@, texture_file),
                                       !.log = Append(@, Msg("found_ref", texture_file))])
            ELSE ScanMtlLines_last_word(Tail(lines), st)

\* The body of "for line in f" over one material file.
RECURSIVE ScanMtlLines(_, _)
ScanMtlLines(lines, st) ==
    IF lines = <<>> THEN st
    ELSE LET line == Strip(Head(lines))
         IN IF StartsWith(line, "map_Kd")
            THEN IF Len(Split1(line)) < 2
                 THEN [st EXCEPT !.err = TRUE]
                 ELSE LET texture_file == Split1(line)[2]
                      IN ScanMtlLines(Tail(lines),
                            [st EXCEPT !.texture_paths = Append(@, texture_file),
                                       !.log = Append(@, Msg("found_ref", texture_file))])
            ELSE ScanMtlLines(Tail(lines), st)

\* One material file: skipped when it does not exist, else opened and
\* scanned inside its own try/except.  cli: the stand-alone loader, which
\* also prints the path it reads and the path it misses.
ReadMtl(obj_dir, mtl_file, st, cli) ==
    LET mtl_path == join(obj_dir, mtl_file)
    IN IF ~exists(mtl_path)
       THEN IF cli THEN [st EXCEPT !.log = Append(@, Msg("mtl_missing", mtl_path))]
            ELSE st
       ELSE LET s0 == [st EXCEPT !.err = FALSE,
                          !.log = IF cli THEN Append(@, Msg("reading", mtl_path))
                                  ELSE @]
                s1 == IF Readable(mtl_path)
                      THEN ScanMtlLines(fs.text[mtl_path], s0)
                      ELSE [s0 EXCEPT !.err = TRUE]
            IN IF s1.err
               THEN [s1 EXCEPT !.log = Append(@, Msg("warn_mtl", mtl_path)),
                               !.failed = Append(@, mtl_file)]
               ELSE s1

\* A step 2 with one try/except around the whole loop: the first material
\* file that fails ends it.
RECURSIVE AnalyzeMtl_stop(_, _, _, _)
AnalyzeMtl_stop(obj_dir, mtl_files, st, cli) ==
    IF mtl_files = <<>> THEN st
    ELSE LET s1 == ReadMtl(obj_dir, Head(mtl_files), st, cli)
         IN IF Len(s1.failed) > Len(st.failed) THEN s1
            ELSE AnalyzeMtl_stop(obj_dir, Tail(mtl_files), s1, cli)

\* Step 2: every material file of the descriptor, in order.
RECURSIVE AnalyzeMtl(_, _, _, _)
AnalyzeMtl(obj_dir, mtl_files, st, cli) ==
    IF mtl_files = <<>> THEN st
    ELSE AnalyzeMtl(obj_dir, Tail(mtl_files),
                    ReadMtl(obj_dir, Head(mtl_files), st, cli), cli)

MtlStart == [texture_paths |-> <<>>, log |-> <<>>, err |-> FALSE, failed |-> <<>>]

\* ------------------------------------------------------------ geometry library
\* A mesh as the code sees it: the file it was read from, its textures (the
\* path each image was read from; AutoTexture for one the library's own
\* loader attached), its uniform colour, and whether it holds any geometry.
AutoTexture == <<"auto">>
SkinTone == <<"0.7", "0.5", "0.3">>
NoColor == <<>>
NoMesh == [src |-> NoPath, textures |-> <<>>, color |-> NoColor,
           normals |-> FALSE, empty |-> TRUE]

\* o3d.io.read_triangle_mesh: what the library returns when it does not
\* raise.  A path it cannot read gives an empty mesh and a warning on the
\* console, not an exception; textures come only with a readable file.
read_triangle_mesh(path, outcome) ==
    IF Readable(path)
    THEN [src |-> path,
          textures |-> IF outcome = "textured" THEN <<AutoTexture>> ELSE <<>>,
          color |-> NoColor, normals |-> FALSE, empty |-> FALSE]
    ELSE [NoMesh EXCEPT !.src = path]

MeshOutcomes == {"raise", "plain", "textured"}

\* A paint call that leaves the mesh as it was.
paint_nothing(m, color) == m

\* mesh.paint_uniform_color(color)
paint_uniform_color(m, color) == [m EXCEPT !.color = color]

\* The manual step run whatever the library attached.
NeedsManual_always(m, scanned) == scanned # <<>>

\* "if len(mesh.textures) == 0 and texture_paths": the manual step runs only
\* for a mesh without textures and a non-empty result of the scan.
NeedsManual(m, scanned) == Len(m.textures) = 0 /\ scanned # <<>>

\* ------------------------------------------------------------ testing.py: load
\* Step 4's loop over the texture references.  st.calls counts the
\* read_image calls made so far; the lib.imgFail-th ones raise.
RECURSIVE TextureLoop(_, _, _, _)
TextureLoop(obj_dir, texture_paths, lib, st) ==
    IF texture_paths = <<>> THEN st
    ELSE Bind(find_texture_file(obj_dir, Head(texture_paths)), LAMBDA found_texture :
         Bind([st EXCEPT !.probes = @ \o ProbesOf(obj_dir, Head(texture_paths)),
                         !.found = Append(@, found_texture),
                         !.images = IF found_texture # NoPath
                                    THEN Append(@, found_texture) ELSE @],
              LAMBDA s2 :
            IF found_texture # NoPath
            THEN IF Len(s2.images) \in lib.imgFail
                 THEN TextureLoop(obj_dir, Tail(texture_paths), lib,
                         [s2 EXCEPT !.img_failed = Append(@, found_texture),
                                    !.log = Append(@, Msg("err_texture", found_texture))])
                 ELSE [s2 EXCEPT !.textures = <<found_texture>>,
                                 !.log = Append(@, Msg("loaded_texture",
                                                       basename(found_texture)))]
            ELSE TextureLoop(obj_dir, Tail(texture_paths), lib,
                    [s2 EXCEPT !.log = Append(@, Msg("texture_not_found",
                                                     Head(texture_paths)))])))

\* What a load reports besides its mesh: the exception it raised (NoRaise
\* when it returned), its log lines, and the trace of what it parsed,
\* probed and read.
NoRaise == "none"
LoadStart ==
    [raised |-> NoRaise, log |-> <<>>, mesh |-> NoMesh, auto |-> 0,
     mtl_files |-> <<>>, texture_paths |-> <<>>, failed |-> <<>>,
     obj_err |-> FALSE, probes |-> <<>>, found |-> <<>>, images |-> <<>>,
     img_failed |-> <<>>, resolved |-> NoPath]

\* Steps 3 to 5, given what steps 1 and 2 left in r2.
LoadMeshAndTextures(obj_path, lib, r2) ==
    IF lib.mesh = "raise" THEN [r2 EXCEPT !.raised = "read_triangle_mesh"]
    ELSE IF lib.fail = "normals" THEN [r2 EXCEPT !.raised = "compute_vertex_normals"]
    ELSE
    Bind([read_triangle_mesh(obj_path, lib.mesh) EXCEPT !.normals = TRUE], LAMBDA mesh0 :
    Bind([textures |-> mesh0.textures, log |-> <<>>, probes |-> <<>>,
          found |-> <<>>, images |-> <<>>, img_failed |-> <<>>], LAMBDA t0 :
    Bind(IF NeedsManual(mesh0, r2.texture_paths)
         THEN TextureLoop(dirname(obj_path), r2.texture_paths, lib,
                 [t0 EXCEPT !.log = <<Msg("manual_loading", obj_path)>>])
         ELSE t0, LAMBDA t :
    Bind([r2 EXCEPT !.log = Append(@, Msg("mesh_loaded", obj_path)) \o t.log,
                    !.auto = Len(mesh0.textures),
                    !.probes = t.probes, !.found = t.found,
                    !.images = t.images, !.img_failed = t.img_failed,
                    !.resolved = IF Len(mesh0.textures) = 0 /\ Len(t.textures) > 0
                                 THEN t.textures[1] ELSE NoPath,
                    !.mesh = [mesh0 EXCEPT !.textures = t.textures]], LAMBDA r4 :
       IF Len(r4.mesh.textures) > 0
       THEN [r4 EXCEPT !.log = Append(@, Msg("ready_with_textures", obj_path))]
       ELSE IF lib.fail = "paint"
       THEN [r4 EXCEPT !.log = Append(@, Msg("no_textures", obj_path)),
                       !.mesh = NoMesh,
                       !.raised = "paint_uniform_color"]
       ELSE [r4 EXCEPT !.log = Append(@, Msg("no_textures", obj_path)),
                       !.mesh = paint_uniform_color(@, SkinTone)]))))

load_obj_with_textures(obj_path, lib) ==
    IF ~exists(obj_path)
    THEN [LoadStart EXCEPT !.log = <<Msg("loading_obj", obj_path)>>,
                           !.raised = "FileNotFoundError"]
    ELSE
    Bind(AnalyzeObj(obj_path), LAMBDA a :
    Bind(AnalyzeMtl(dirname(obj_path), a.mtl_files, MtlStart, FALSE), LAMBDA m :
       LoadMeshAndTextures(obj_path, lib,
          [LoadStart EXCEPT !.log = <<Msg("loading_obj", obj_path)>> \o a.log \o m.log
                                    \o <<Msg("loading_mesh", obj_path)>>,
                            !.mtl_files = a.mtl_files,
                            !.obj_err = a.err,
                            !.failed = m.failed,
                            !.texture_paths = m.texture_paths])))

\* ------------------------------------------------------------ handlers
\* What a handler leaves behind: the window's fields, the file system, and
\* the record of the run.  escaped: an exception left the handler.
ActStart ==
    [op |-> "init", arg |-> NoPath, dir |-> NoPath, escaped |-> FALSE,
     log |-> <<>>, load |-> LoadStart, shown |-> <<>>, failures |-> <<>>]

\* The exceptions raised during one load, in the order they were raised: a
\* failed descriptor scan, each failed material file, each failed image
\* read, and the exception that ended the load, if one did.
Failures(r) ==
    (IF r.obj_err THEN <<"obj_scan">> ELSE <<>>)
    \o [i \in 1..Len(r.failed) |-> "mtl_scan"]
    \o [i \in 1..Len(r.img_failed) |-> "read_image"]
    \o (IF r.raised # NoRaise THEN <<r.raised>> ELSE <<>>)

Outcome(a) == [mesh |-> mesh, mesh_file |-> mesh_file, fs |-> fs, act |-> a]

\* testing.py: the viewer, inside its own try/except.
visualize_mesh(m, lib) ==
    IF lib.fail = "viewer"
    THEN [shown |-> <<>>, failures |-> <<"viewer">>,
          log |-> <<Msg("opening_viewer", m.src), Msg("err_visualization", m.src)>>]
    ELSE [shown |-> <<m>>, failures |-> <<>>,
          log |-> <<Msg("opening_viewer", m.src), Msg("viewer_closed", m.src)>>]

\* testing.py: the "Load OBJ File" button.  file_name is what the file
\* dialog returned, NoPath when the user cancelled it.
load_obj_mesh(file_name, lib) ==
    Bind([ActStart EXCEPT !.op = "load_obj_mesh", !.arg = file_name], LAMBDA a0 :
       IF file_name = NoPath THEN Outcome(a0)
       ELSE Bind(load_obj_with_textures(file_name, lib), LAMBDA r :
               IF r.raised # NoRaise
               THEN [Outcome([a0 EXCEPT !.load = r, !.failures = Failures(r),
                                 !.log = Append(r.log, Msg("err_loading_obj", file_name))])
                     EXCEPT !.mesh_file = file_name]
               ELSE Bind(visualize_mesh(r.mesh, lib), LAMBDA v :
                       [Outcome([a0 EXCEPT !.load = r, !.log = r.log \o v.log,
                                           !.failures = Failures(r) \o v.failures,
                                           !.shown = v.shown])
                        EXCEPT !.mesh_file = file_name, !.mesh = r.mesh])))

\* open_mixamo (both windows): the browser call reports failure by its
\* return value, which the handler does not read.
open_mixamo ==
    Outcome([ActStart EXCEPT !.op = "open_mixamo",
                             !.log = <<Msg("opened_mixamo", NoPath)>>])

\* GUI_Application.py: the viewer.  No try/except of its own: the mesh goes
\* through a temporary PLY file, which keeps no textures.  The library
\* writes no file for an empty mesh (it warns on the console and returns
\* false), so the read that follows gives what an earlier run left in the
\* file, or an empty mesh when there is no such file; fs.tmp is the mesh the
\* file holds, NoMesh when it does not exist.
TmpFile == <<SEP, "tmp", SEP, "tmp_mesh", DOT, "ply">>

gui_visualize_mesh(m, lib) ==
    LET written == ~m.empty
        tmp == IF written THEN [m EXCEPT !.src = TmpFile, !.textures = <<>>]
               ELSE fs.tmp
        mesh_tmp == IF tmp = NoMesh THEN [NoMesh EXCEPT !.src = TmpFile] ELSE tmp
    IN IF lib.fail = "write"
       THEN [raised |-> "write_triangle_mesh", shown |-> <<>>, tmp |-> fs.tmp]
       ELSE IF lib.fail = "read_tmp"
       THEN [raised |-> "read_tmp", shown |-> <<>>, tmp |-> tmp]
       ELSE IF lib.fail = "draw"
       THEN [raised |-> "draw_geometries", shown |-> <<>>, tmp |-> tmp]
       ELSE [raised |-> NoRaise, shown |-> <<mesh_tmp>>, tmp |-> tmp]

AddFiles(f, paths) == [f EXCEPT !.files = @ \cup paths]
WriteTmp(f, m) ==
    IF m = NoMesh THEN f ELSE [AddFiles(f, {TmpFile}) EXCEPT !.tmp = m]

\* GUI_Application.py: the "Load Mesh" button.
load_mesh(file_name, lib) ==
    LET a0 == [ActStart EXCEPT !.op = "load_mesh", !.arg = file_name]
    IN IF file_name = NoPath THEN Outcome(a0)
       ELSE IF lib.mesh = "raise"
       THEN [Outcome([a0 EXCEPT !.load.raised = "read_triangle_mesh",
                                !.failures = <<"read_triangle_mesh">>,
                                !.log = <<Msg("err_loading_mesh", file_name)>>])
             EXCEPT !.mesh_file = file_name]
       ELSE LET m == read_triangle_mesh(file_name, lib.mesh)
                l == <<Msg(IF Len(m.textures) > 0 THEN "loaded_with_textures"
                           ELSE "loaded_without_textures", file_name)>>
                v == gui_visualize_mesh(m, lib)
                a1 == [a0 EXCEPT !.load.mesh = m, !.load.auto = Len(m.textures),
                                 !.load.raised = v.raised, !.shown = v.shown,
                                 !.failures = IF v.raised # NoRaise THEN <<v.raised>>
                                              ELSE <<>>,
                                 !.log = IF v.raised # NoRaise
                                         THEN Append(l, Msg("err_loading_mesh", file_name))
                                         ELSE l]
            IN [Outcome(a1) EXCEPT !.mesh_file = file_name, !.mesh = m,
                                   !.fs = WriteTmp(fs, v.tmp)]

\* GUI_Application.py: the "Import Rigged FBX to Unity" button.  file_name
\* and unity_assets_path are what the two dialogs returned.
import_to_unity(file_name, unity_assets_path, lib) ==
    LET a0 == [ActStart EXCEPT !.op = "import_to_unity", !.arg = file_name,
                               !.dir = unity_assets_path]
    IN IF file_name = NoPath \/ unity_assets_path = NoPath THEN Outcome(a0)
       ELSE LET base_name == basename(file_name)
                target_path == join(unity_assets_path, base_name)
            IN IF lib.fail = "makedirs"
               THEN Outcome([a0 EXCEPT !.load.raised = "makedirs",
                                       !.failures = <<"makedirs">>,
                                       !.log = <<Msg("err_copying", file_name)>>])
               ELSE IF lib.fail = "copy" \/ ~exists(file_name)
               THEN [Outcome([a0 EXCEPT !.load.raised = "copy",
                                        !.failures = <<"copy">>,
                                        !.log = <<Msg("err_copying", file_name)>>])
                     EXCEPT !.fs = AddFiles(fs, {unity_assets_path})]
               ELSE [Outcome([a0 EXCEPT !.log = <<Msg("copied", target_path)>>])
                     EXCEPT !.fs = AddFiles(fs, {unity_assets_path, target_path})]

\* ------------------------------------------------------------ new.py
\* The stand-alone loader.  It searches for the texture before it loads the
\* mesh, guards only the file scans and the image read with try/except, and
\* shows a painted copy when the mesh has no texture; it returns the mesh it
\* loaded.
StandaloneShow(obj_path, lib, a0, r3) ==
    IF Len(r3.mesh.textures) > 0
    THEN IF lib.fail = "draw"
         THEN [a0 EXCEPT !.escaped = TRUE,
                         !.log = Append(r3.log, Msg("ready_with_textures", obj_path)),
                         !.load = [r3 EXCEPT !.raised = "draw_geometries", !.mesh = NoMesh]]
         ELSE [a0 EXCEPT !.log = Append(r3.log, Msg("ready_with_textures", obj_path)),
                         !.load = r3, !.shown = <<r3.mesh>>]
    ELSE IF lib.fail \in {"paint", "draw"}
         THEN [a0 EXCEPT !.escaped = TRUE,
                         !.log = Append(r3.log, Msg("no_textures", obj_path)),
                         !.load = [r3 EXCEPT !.mesh = NoMesh,
                                      !.raised = IF lib.fail = "paint"
                                                 THEN "paint_uniform_color"
                                                 ELSE "draw_geometries"]]
         ELSE [a0 EXCEPT !.log = Append(r3.log, Msg("no_textures", obj_path)),
                         !.load = r3,
                         !.shown = << paint_uniform_color(
                                         [NoMesh EXCEPT !.src = r3.mesh.src,
                                                        !.empty = r3.mesh.empty,
                                                        !.normals = r3.mesh.normals],
                                         SkinTone) >>]

\* The mesh load and the manual image read, given the scans and the search
\* in r2; found is what the search returned.
StandaloneLoad(obj_path, lib, a0, r2, found) ==
    IF lib.mesh = "raise"
    THEN [a0 EXCEPT !.escaped = TRUE, !.log = r2.log,
                    !.load = [r2 EXCEPT !.raised = "read_triangle_mesh"]]
    ELSE IF lib.fail = "normals"
    THEN [a0 EXCEPT !.escaped = TRUE, !.log = r2.log,
                    !.load = [r2 EXCEPT !.raised = "compute_vertex_normals"]]
    ELSE
    Bind([read_triangle_mesh(obj_path, lib.mesh) EXCEPT !.normals = TRUE], LAMBDA mesh0 :
    Bind(NeedsManual(mesh0, found), LAMBDA manual :
    Bind(manual /\ 1 \notin lib.imgFail, LAMBDA loaded :
       StandaloneShow(obj_path, lib, a0,
          [r2 EXCEPT !.auto = Len(mesh0.textures),
                     !.images = IF manual THEN <<found>> ELSE <<>>,
                     !.img_failed = IF manual /\ ~loaded THEN <<found>> ELSE <<>>,
                     !.resolved = IF loaded THEN found ELSE NoPath,
                     !.mesh = IF loaded THEN [mesh0 EXCEPT !.textures = <<found>>]
                              ELSE mesh0,
                     !.log = @ \o (IF ~manual THEN <<>>
                                   ELSE IF loaded THEN <<Msg("loaded_texture", found)>>
                                   ELSE <<Msg("err_texture", found)>>)]))))

StandaloneRun(obj_path, lib) ==
    Bind(AnalyzeObj(obj_path), LAMBDA a :
    Bind(IF a.mtl_files # <<>>
         THEN AnalyzeMtl(dirname(obj_path), a.mtl_files, MtlStart, TRUE)
         ELSE MtlStart, LAMBDA m :
    Bind(IF m.texture_paths # <<>>
         THEN InlineSearch(dirname(obj_path), m.texture_paths, <<>>)
         ELSE [found |-> NoPath, probes |-> <<>>], LAMBDA s :
       StandaloneLoad(obj_path, lib,
          [ActStart EXCEPT !.op = "standalone", !.arg = obj_path],
          [LoadStart EXCEPT !.log = <<Msg("obj_file", obj_path)>> \o a.log \o m.log
                                    \o <<Msg("loading_mesh", obj_path)>>,
                            !.mtl_files = a.mtl_files, !.obj_err = a.err,
                            !.failed = m.failed,
                            !.texture_paths = m.texture_paths,
                            !.probes = s.probes,
                            !.found = IF m.texture_paths # <<>> THEN <<s.found>> ELSE <<>>],
          s.found))))

comprehensive_mesh_analysis_and_load(obj_path, lib) ==
    Bind(StandaloneRun(obj_path, lib), LAMBDA a :
       [a EXCEPT !.failures = Failures(a.load)])

\* ------------------------------------------------------------ the world
Dir == <<SEP, "d">>
ObjPath == join(Dir, <<"m", DOT, "obj">>)
GonePath == join(Dir, <<"gone", DOT, "obj">>)
FbxPath == <<SEP, "dl", SEP, "rig", DOT, "fbx">>
UnityDir == <<SEP, "unity">>

MatMtl == <<"mat", DOT, "mtl">>
BMtl == <<"b", DOT, "mtl">>
BodyJPG == <<"body", DOT, "JPG">>
TexPng == <<"tex", DOT, "png">>
SubTexPng == <<"sub", SEP, "tex", DOT, "png">>

MtllibLine(name) == <<"mtllib", SP>> \o name
MapKdLine(ref) == <<"map_Kd", SP>> \o ref
BareMtllib == <<"mtllib">>
BareMapKd == <<"map_Kd">>
VtLine == <<"vt", SP, "0", SP, "0">>

SeqsUpTo(S, n) == UNION {[1..k -> S] : k \in 0..n}
SubsetsUpTo(S, n) == {T \in SUBSET S : Cardinality(T) <= n}

\* A file's directories exist with it.
RECURSIVE DirsOf(_)
DirsOf(p) ==
    LET d == dirname(p)
    IN IF d = <<>> \/ d = p THEN {} ELSE {d} \cup DirsOf(d)

Closed(paths) == paths \cup UNION {DirsOf(p) : p \in paths}

\* A file system: the descriptor (its lines, or locked: it exists and open()
\* fails), the material files (absent, locked, or their lines) and the
\* image files beside them.
MakeFs(objLocked, objText, mtlState, mtlText, images) ==
    LET mtls == {n \in DOMAIN mtlState : mtlState[n] # "absent"}
        open == {n \in mtls : mtlState[n] = "text"}
        mtlPath == [n \in mtls |-> join(Dir, n)]
    IN [files |-> Closed({ObjPath, FbxPath} \cup {mtlPath[n] : n \in mtls} \cup images),
        text |-> [p \in (IF objLocked THEN {} ELSE {ObjPath})
                        \cup {mtlPath[n] : n \in open} |->
                    IF p = ObjPath THEN objText
                    ELSE LET n == CHOOSE x \in open : mtlPath[x] = p
                         IN mtlText[n]],
        tmp |-> NoMesh]

\* What the library and the viewer may do in one handler: the mesh read
\* raises or returns a mesh with or without textures; at most one of the
\* unguarded calls raises; the read_image calls numbered in imgFail raise.
Libs(meshes, sites, calls) ==
    [mesh : meshes, fail : {NoRaise} \cup sites, imgFail : SUBSET (1..calls)]

\* ------------------------------------------------------------ session
SessionObjLines == {MtllibLine(MatMtl), BareMtllib}
SessionMtlLines == {MapKdLine(BodyJPG), BareMapKd}
SessionImages == {join(Dir, <<"body", DOT, "jpg">>), join(Dir, BodyJPG)}

\* GUI_Application.py reads neither material files nor images: its sessions
\* start from the file systems that hold the descriptor alone.
InitSession ==
    /\ app \in {"testing", "GUI_Application", "new"}
    /\ \E objLocked \in BOOLEAN, matState \in {"absent", "locked", "text"} :
       \E objText \in SeqsUpTo(SessionObjLines, MaxSessionLines),
          matText \in SeqsUpTo(SessionMtlLines, MaxSessionLines),
          images \in SubsetsUpTo(SessionImages, MaxTexFiles) :
          /\ objLocked => objText = <<>>
          /\ matState # "text" => matText = <<>>
          /\ app = "GUI_Application" => matState = "absent" /\ images = {}
          /\ fs = MakeFs(objLocked, objText, [n \in {MatMtl} |-> matState],
                         [n \in {MatMtl} |-> matText], images)
    /\ mesh = NoMesh
    /\ mesh_file = NoPath
    /\ ui = "idle"
    /\ act = ActStart

Commit(o) ==
    /\ mesh' = o.mesh
    /\ mesh_file' = o.mesh_file
    /\ fs' = o.fs
    /\ act' = o.act
    /\ ui' = IF o.act.escaped THEN "crashed" ELSE "idle"
    /\ UNCHANGED app

DialogFiles == {NoPath, ObjPath, GonePath}

LoadObjMesh ==
    /\ app = "testing" /\ ui = "idle"
    /\ \E file_name \in DialogFiles, lib \in Libs(MeshOutcomes, {"normals", "paint", "viewer"}, MaxSessionLines) :
          Commit(load_obj_mesh(file_name, lib))

LoadMesh ==
    /\ app = "GUI_Application" /\ ui = "idle"
    /\ \E file_name \in DialogFiles :
       \E lib \in Libs(MeshOutcomes, {"write", "read_tmp", "draw"}, 0) :
          Commit(load_mesh(file_name, lib))

ImportToUnity ==
    /\ app = "GUI_Application" /\ ui = "idle"
    /\ \E file_name \in {NoPath, FbxPath, GonePath}, unity_assets_path \in {NoPath, UnityDir} :
       \E lib \in Libs({"plain"}, {"makedirs", "copy"}, 0) :
          Commit(import_to_unity(file_name, unity_assets_path, lib))

OpenMixamo ==
    /\ app \in {"testing", "GUI_Application"} /\ ui = "idle"
    /\ Commit(open_mixamo)

RunStandalone ==
    /\ app = "new" /\ ui = "idle"
    /\ \E obj_path \in {ObjPath, GonePath}, lib \in Libs(MeshOutcomes, {"normals", "paint", "draw"}, 1) :
          Commit(Outcome(comprehensive_mesh_analysis_and_load(obj_path, lib)))

Next == LoadObjMesh \/ LoadMesh \/ ImportToUnity \/ OpenMixamo \/ RunStandalone

Init == InitSession

Spec == Init /\ [][Next]_vars

\* ------------------------------------------------------------ the scans alone
\* A function application keeps no state: each is applied once to the inputs
\* the initial state drew.
\* The two loaders applied to descriptors of up to MaxObjLines lines that name
\* two material files.
ScanObjLineSet == {MtllibLine(MatMtl), MtllibLine(BMtl), BareMtllib, VtLine}
ScanMtlLineSet == {MapKdLine(BodyJPG), BareMapKd}
ScanBMtlTexts == {<< <<"newmtl", SP, "skin">>, MapKdLine(TexPng) >>, <<BareMapKd>>}
ScanImages == {join(Dir, <<"body", DOT, "jpg">>)}

InitScan ==
    /\ app \in {"testing", "new"}
    /\ \E objLocked \in BOOLEAN, matState \in {"absent", "locked", "text"},
          bState \in {"absent", "text"} :
       \E objText \in SeqsUpTo(ScanObjLineSet, MaxObjLines),
          matText \in SeqsUpTo(ScanMtlLineSet, MaxMtlLines),
          bText \in ScanBMtlTexts \cup {<<>>} :
          /\ objLocked => objText = <<>>
          /\ matState # "text" => matText = <<>>
          /\ (bState = "text") = (bText # <<>>)
          /\ fs = MakeFs(objLocked, objText,
                         [n \in {MatMtl, BMtl} |-> IF n = MatMtl THEN matState ELSE bState],
                         [n \in {MatMtl, BMtl} |-> IF n = MatMtl THEN matText ELSE bText],
                         ScanImages)
    /\ mesh = NoMesh
    /\ mesh_file = NoPath
    /\ ui = "idle"
    /\ act = ActStart

\* load_obj_with_textures applied to the descriptor.
ApplyLoad ==
    /\ app = "testing" /\ act.op = "init"
    /\ \E lib \in Libs(MeshOutcomes, {"paint"}, MaxImgCalls) :
          LET r == load_obj_with_textures(ObjPath, lib)
          IN act' = [ActStart EXCEPT !.op = "load_obj_with_textures", !.arg = ObjPath,
                                     !.load = r, !.log = r.log,
                                     !.failures = Failures(r)]
    /\ UNCHANGED <<fs, app, mesh, mesh_file, ui>>

\* comprehensive_mesh_analysis_and_load applied to the descriptor.
ApplyStandalone ==
    /\ app = "new" /\ act.op = "init"
    /\ \E lib \in Libs(MeshOutcomes, {"paint"}, 1) :
          act' = comprehensive_mesh_analysis_and_load(ObjPath, lib)
    /\ UNCHANGED <<fs, app, mesh, mesh_file, ui>>

NextScan == ApplyLoad \/ ApplyStandalone

SpecScan == InitScan /\ [][NextScan]_vars

\* ------------------------------------------------------------ the resolver alone
\* The resolver applied to references with and without a sub-path and an
\* extension, over file systems that hold up to MaxTexFiles of the images
\* those references can lead to.
Root == <<SEP>>
ResolverDirs == {Dir, Root}
ResolverRefs == {<<"tex">>, <<"tex", DOT, "JPG">>, SubTexPng,
                 <<"sub", SEP, "tex", DOT, "bmp">>}
ResolverNames == {<<"tex">>, TexPng, <<"tex", DOT, "jpg">>, <<"tex", DOT, "JPG">>,
                  SubTexPng, <<"sub", SEP, "tex", DOT, "jpg">>}
ResolverImages == {join(d, n) : d \in ResolverDirs, n \in ResolverNames}

InitResolver ==
    /\ app \in {"testing", "new"}
    /\ \E images \in SubsetsUpTo(ResolverImages, MaxTexFiles) :
          fs = [files |-> Closed(images), text |-> [p \in {} |-> <<>>],
                tmp |-> NoMesh]
    /\ mesh = NoMesh
    /\ mesh_file = NoPath
    /\ ui = "idle"
    /\ act = ActStart

\* find_texture_file applied to one reference.
ApplyFind ==
    /\ app = "testing" /\ act.op = "init"
    /\ \E obj_dir \in ResolverDirs, texture_ref \in ResolverRefs :
          act' = [ActStart EXCEPT
                     !.op = "find_texture_file", !.dir = obj_dir, !.arg = texture_ref,
                     !.load.texture_paths = <<texture_ref>>,
                     !.load.found = <<find_texture_file(obj_dir, texture_ref)>>,
                     !.load.probes = ProbesOf(obj_dir, texture_ref)]
    /\ UNCHANGED <<fs, app, mesh, mesh_file, ui>>

\* The stand-alone loader's search applied to a list of references.
ApplySearch ==
    /\ app = "new" /\ act.op = "init"
    /\ \E obj_dir \in ResolverDirs,
          texture_files \in SeqsUpTo(ResolverRefs, MaxRefs) \ {<<>>} :
          LET s == InlineSearch(obj_dir, texture_files, <<>>)
          IN act' = [ActStart EXCEPT
                        !.op = "inline_search", !.dir = obj_dir,
                        !.load.texture_paths = texture_files,
                        !.load.found = <<s.found>>,
                        !.load.probes = s.probes]
    /\ UNCHANGED <<fs, app, mesh, mesh_file, ui>>

NextResolver == ApplyFind \/ ApplySearch

SpecResolver == InitResolver /\ [][NextResolver]_vars

\* ============================================================ claims
\* The candidate sequence as the specification words it: the reference
\* verbatim, the reference flattened to its last component, then the
\* reference without its extension under each extension of the fixed list.
SpecExtensions ==
    << <<DOT, "jpg">>, <<DOT, "jpeg">>, <<DOT, "png">>, <<DOT, "bmp">>,
       <<DOT, "tga">>, <<DOT, "JPG">>, <<DOT, "JPEG">>, <<DOT, "PNG">> >>

Verbatim(dir, ref) == join(dir, ref)
Flattened(dir, ref) == join(dir, basename(ref))
WithExtension(dir, ref, k) == join(dir, splitext(ref)[1] \o SpecExtensions[k])

CandidateSequence(dir, ref) ==
    <<Verbatim(dir, ref), Flattened(dir, ref)>>
    \o [k \in 1..Len(SpecExtensions) |-> WithExtension(dir, ref, k)]

Existing(c) == {i \in 1..Len(c) : exists(c[i])}
FirstExisting(c) == IF Existing(c) = {} THEN NoPath ELSE c[Min(Existing(c))]
Resolves(dir, ref) == Existing(CandidateSequence(dir, ref)) # {}

\* C1: the resolver returns the first existing path of the candidate
\* sequence (the stand-alone search: of the first reference that has one),
\* and "not found" when none exists; with several extension candidates on
\* disk and neither of the first two, the earliest extension of the list wins.
C1_FirstExistingCandidate ==
    /\ act.op = "find_texture_file" =>
          LET c == CandidateSequence(act.dir, act.arg)
          IN /\ act.load.found = <<FirstExisting(c)>>
             /\ \A k \in 1..Len(SpecExtensions) :
                   ( /\ ~exists(c[1]) /\ ~exists(c[2])
                     /\ exists(WithExtension(act.dir, act.arg, k))
                     /\ \A j \in 1..(k - 1) : ~exists(WithExtension(act.dir, act.arg, j)) )
                   => act.load.found = <<WithExtension(act.dir, act.arg, k)>>
    /\ act.op = "inline_search" =>
          LET refs == act.load.texture_paths
              R == {i \in 1..Len(refs) : Resolves(act.dir, refs[i])}
          IN act.load.found =
                << IF R = {} THEN NoPath
                   ELSE FirstExisting(CandidateSequence(act.dir, refs[Min(R)])) >>

\* Two extension candidates on disk, neither of the first two candidates:
\* the one earlier in the list was returned.
C1_Witness ==
    /\ act.op = "find_texture_file"
    /\ LET c == CandidateSequence(act.dir, act.arg)
       IN /\ ~exists(c[1]) /\ ~exists(c[2])
          /\ Cardinality({i \in Existing(c) : i > 2}) >= 2
          /\ act.load.found = <<c[Min(Existing(c))]>>

\* C2: a reference whose file sits only at directory/basename(reference),
\* not at the sub-path the reference names, resolves to that flattened path.
C2_FlattenedReference ==
    /\ ( /\ act.op = "find_texture_file"
         /\ exists(Flattened(act.dir, act.arg))
         /\ ~exists(Verbatim(act.dir, act.arg)) )
       => act.load.found = <<Flattened(act.dir, act.arg)>>
    /\ act.op = "inline_search" =>
          LET ref == act.load.texture_paths[1]
          IN ( exists(Flattened(act.dir, ref)) /\ ~exists(Verbatim(act.dir, ref)) )
             => act.load.found = <<Flattened(act.dir, ref)>>

\* A reference with a sub-path, the file only beside the descriptor.
C2_Witness ==
    /\ act.op = "find_texture_file"
    /\ basename(act.arg) # act.arg
    /\ exists(Flattened(act.dir, act.arg))
    /\ ~exists(Verbatim(act.dir, act.arg))
    /\ act.load.found = <<Flattened(act.dir, act.arg)>>

\* ------------------------------------------------------------ loads
\* The last run was a load by one of the two loaders that resolve textures.
GuiLoad == act.op = "load_obj_mesh" /\ act.arg # NoPath
CliLoad == act.op = "standalone"
LoadDir == dirname(act.arg)
Logged(k, a) == \E i \in 1..Len(act.log) : act.log[i] = Msg(k, a)
LibrarySites == {"read_triangle_mesh", "compute_vertex_normals",
                 "paint_uniform_color", "draw_geometries"}
\* The load got as far as step 4, the texture handling.
ReachedTextures ==
    act.load.raised \notin {"FileNotFoundError", "read_triangle_mesh",
                            "compute_vertex_normals"}

\* C3: a reference none of whose candidates exists resolves to "not found",
\* which is logged and raises nothing: the load goes on, and only a library
\* call can still end it.
C3_NotFoundIsNoError ==
    /\ GuiLoad =>
          \A i \in 1..Len(act.load.found) :
             ~Resolves(LoadDir, act.load.texture_paths[i]) =>
                /\ act.load.found[i] = NoPath
                /\ Logged("texture_not_found", act.load.texture_paths[i])
                /\ act.load.raised \in {NoRaise, "paint_uniform_color"}
                /\ (act.load.raised = NoRaise =>
                      /\ mesh = act.load.mesh
                      /\ Logged("opening_viewer", act.arg))
    /\ ( /\ CliLoad
         /\ act.load.texture_paths # <<>>
         /\ \A i \in 1..Len(act.load.texture_paths) :
               ~Resolves(LoadDir, act.load.texture_paths[i]) )
       => /\ act.load.found = <<NoPath>>
          /\ act.load.images = <<>>
          /\ act.load.raised \in {NoRaise} \cup LibrarySites
          /\ Logged("loading_mesh", act.arg)

\* A reference was looked for and not found, and the mesh was shown.
C3_Witness ==
    /\ GuiLoad
    /\ act.load.texture_paths # <<>>
    /\ act.load.found = <<NoPath>>
    /\ act.load.raised = NoRaise
    /\ act.shown = <<mesh>>

\* C4: the descriptor names mat.mtl, mat.mtl holds "map_Kd body.JPG", and
\* the directory holds body.jpg and no body.JPG: the reference resolves to
\* directory/body.jpg, after the two literal probes of body.JPG fail.
BodyJpgPath == join(Dir, <<"body", DOT, "jpg">>)
BodyJPGPath == join(Dir, BodyJPG)
MatPath == join(Dir, MatMtl)
C4_Scenario ==
    /\ Readable(ObjPath) /\ fs.text[ObjPath] = <<MtllibLine(MatMtl)>>
    /\ Readable(MatPath) /\ fs.text[MatPath] = <<MapKdLine(BodyJPG)>>
    /\ exists(BodyJpgPath) /\ ~exists(BodyJPGPath)
    /\ act.arg = ObjPath

C4_CaseOnlyDiffers ==
    /\ (GuiLoad /\ C4_Scenario /\ ReachedTextures /\ act.load.auto = 0) =>
          /\ act.load.texture_paths = <<BodyJPG>>
          /\ act.load.found = <<BodyJpgPath>>
          /\ act.load.probes = <<BodyJPGPath, BodyJPGPath, BodyJpgPath>>
          /\ (act.load.img_failed = <<>> =>
                /\ act.load.raised = NoRaise
                /\ mesh.textures = <<BodyJpgPath>>)
    /\ (CliLoad /\ C4_Scenario) =>
          /\ act.load.found = <<BodyJpgPath>>
          /\ act.load.probes = <<BodyJPGPath, BodyJPGPath, BodyJpgPath>>

\* The scenario, loaded: the window's mesh carries body.jpg and was shown.
C4_Witness ==
    /\ GuiLoad /\ C4_Scenario
    /\ mesh.textures = <<BodyJpgPath>>
    /\ act.shown = <<mesh>>

\* C6 as stated: with a texture attached by the library, no candidate path
\* is probed and the attached textures stay.
C6_NoProbeWhenAutoTextured ==
    ((GuiLoad \/ CliLoad) /\ act.load.auto > 0) =>
        /\ act.load.probes = <<>>
        /\ (act.load.raised = NoRaise => act.load.mesh.textures = <<AutoTexture>>)

\* C6 amended: with a texture attached by the library, no image is read or
\* attached by hand and the attached textures stay; the GUI loader probes
\* nothing then (the stand-alone loader probed before it loaded the mesh).
C6_NoManualTextureWhenAutoTextured ==
    ((GuiLoad \/ CliLoad) /\ act.load.auto > 0) =>
        /\ act.load.images = <<>>
        /\ act.load.resolved = NoPath
        /\ (act.load.raised = NoRaise => act.load.mesh.textures = <<AutoTexture>>)
        /\ (GuiLoad => act.load.probes = <<>> /\ act.load.found = <<>>)

\* The library attached a texture to a mesh whose material file names one.
C6_Witness ==
    /\ GuiLoad
    /\ act.load.auto > 0
    /\ act.load.texture_paths # <<>>
    /\ mesh.textures = <<AutoTexture>>
    /\ act.shown = <<mesh>>

\* A load that returned (and, from the GUI, was not ended by an exception).
Completed == (GuiLoad \/ CliLoad) /\ act.load.raised = NoRaise
Presentable(m) == m.textures # <<>> \/ m.color = SkinTone

\* C7 as stated: a load that completes without a texture has painted the
\* mesh it returns, so the returned mesh and every mesh shown is textured
\* or painted.
C7_ReturnedMeshPainted ==
    Completed =>
        /\ Presentable(act.load.mesh)
        /\ \A i \in 1..Len(act.shown) : Presentable(act.shown[i])

\* C7 amended: every mesh shown is textured or painted; the GUI loader
\* paints the mesh it returns, the stand-alone loader paints a copy for the
\* viewer and returns the mesh unpainted.
C7_ShownMeshPainted ==
    Completed =>
        /\ \A i \in 1..Len(act.shown) : Presentable(act.shown[i])
        /\ (GuiLoad => Presentable(act.load.mesh) /\ mesh = act.load.mesh)
        /\ ((CliLoad /\ act.load.mesh.textures = <<>>) =>
              /\ act.load.mesh.color = NoColor
              /\ act.shown = <<[act.load.mesh EXCEPT !.color = SkinTone]>>)

\* A mesh without any texture, painted and shown.
C7_Witness ==
    /\ GuiLoad /\ act.load.raised = NoRaise
    /\ mesh.textures = <<>>
    /\ mesh.color = SkinTone
    /\ act.shown = <<mesh>>

\* ------------------------------------------------------------ scans
\* What the specification says a scan collects, read off the file's lines.
ScanRun == act.op \in {"load_obj_with_textures", "standalone"}
IsKeywordLine(l, kw) == StartsWith(Strip(l), kw)
\* A keyword line with no separating space: taking its argument raises.
Malformed(l, kw) ==
    IsKeywordLine(l, kw) /\ \A i \in 1..Len(Strip(l)) : Strip(l)[i] # SP
ArgumentOf(l) ==
    LET t == Strip(l)
        i == Min({j \in 1..Len(t) : t[j] = SP})
    IN SubSeq(t, i + 1, Len(t))
\* The index of the first line that raises; one past the end when none does.
FirstBad(lines, kw) ==
    Min({i \in 1..Len(lines) : Malformed(lines[i], kw)} \cup {Len(lines) + 1})
\* The arguments of the keyword lines among the first n lines, in file order.
RECURSIVE KeywordArgs(_, _, _)
KeywordArgs(lines, kw, n) ==
    IF n = 0 THEN <<>>
    ELSE KeywordArgs(lines, kw, n - 1)
         \o (IF IsKeywordLine(lines[n], kw) THEN <<ArgumentOf(lines[n])>> ELSE <<>>)
KeywordLineCount(lines, kw) ==
    Cardinality({i \in 1..Len(lines) : IsKeywordLine(lines[i], kw)})

\* The references one material file yields: those before its first failing
\* line; none when it is missing or cannot be opened.
ExpectedRefs(dir, name) ==
    LET p == join(dir, name)
    IN IF ~Readable(p) THEN <<>>
       ELSE KeywordArgs(fs.text[p], "map_Kd", FirstBad(fs.text[p], "map_Kd") - 1)
RECURSIVE AllExpectedRefs(_, _)
AllExpectedRefs(dir, names) ==
    IF names = <<>> THEN <<>>
    ELSE ExpectedRefs(dir, Head(names)) \o AllExpectedRefs(dir, Tail(names))
MtlFails(dir, name) ==
    LET p == join(dir, name)
    IN exists(p) /\ (~Readable(p) \/ FirstBad(fs.text[p], "map_Kd") <= Len(fs.text[p]))

\* C5 as stated: a descriptor with n mtllib lines yields n material-file
\* entries, and the references of every material file are collected in order
\* whatever happens to the other material files.
C5_OneEntryPerMtllibLine ==
    (ScanRun /\ Readable(act.arg)) =>
        /\ Len(act.load.mtl_files) = KeywordLineCount(fs.text[act.arg], "mtllib")
        /\ act.load.texture_paths = AllExpectedRefs(LoadDir, act.load.mtl_files)

\* C5 amended: a descriptor that is read to its end without an exception
\* yields one entry per mtllib line, in file order (a mtllib line without a
\* separating space raises and ends the scan); and the references of every
\* material file found are collected in order whatever happens to the others.
C5_EntriesOfCompletedScan ==
    ScanRun =>
        /\ (Readable(act.arg) /\ ~act.load.obj_err) =>
              /\ act.load.mtl_files
                    = KeywordArgs(fs.text[act.arg], "mtllib", Len(fs.text[act.arg]))
              /\ Len(act.load.mtl_files) = KeywordLineCount(fs.text[act.arg], "mtllib")
        /\ act.load.texture_paths = AllExpectedRefs(LoadDir, act.load.mtl_files)

\* Two material files, the first one failing, the second one's reference
\* collected all the same.
C5_Witness ==
    /\ ScanRun
    /\ act.load.mtl_files = <<MatMtl, BMtl>>
    /\ act.load.failed = <<MatMtl>>
    /\ act.load.texture_paths # <<>>
    /\ act.load.texture_paths[Len(act.load.texture_paths)] = TexPng

\* C8: a descriptor or material file that cannot be opened, or whose scan
\* raises part-way, is logged as a warning; the entries scanned before the
\* failure are kept; and the load goes on to the mesh and the textures.
C8_ScanFailureIsAWarning ==
    ScanRun =>
        LET lines == IF Readable(act.arg) THEN fs.text[act.arg] ELSE <<>>
            descFails == ~Readable(act.arg) \/ FirstBad(lines, "mtllib") <= Len(lines)
            anyFails == descFails
                        \/ \E i \in 1..Len(act.load.mtl_files) :
                              MtlFails(LoadDir, act.load.mtl_files[i])
        IN /\ act.load.obj_err = descFails
           /\ descFails =>
                 /\ Logged("warn_obj", act.arg)
                 /\ act.load.mtl_files
                       = KeywordArgs(lines, "mtllib", FirstBad(lines, "mtllib") - 1)
           /\ \A i \in 1..Len(act.load.mtl_files) :
                 MtlFails(LoadDir, act.load.mtl_files[i]) =>
                    /\ Logged("warn_mtl", join(LoadDir, act.load.mtl_files[i]))
                    /\ \A k \in 1..Len(ExpectedRefs(LoadDir, act.load.mtl_files[i])) :
                          \E j \in 1..Len(act.load.texture_paths) :
                             act.load.texture_paths[j]
                                = ExpectedRefs(LoadDir, act.load.mtl_files[i])[k]
           /\ anyFails =>
                 /\ Logged("loading_mesh", act.arg)
                 /\ act.load.raised \in {NoRaise} \cup LibrarySites
                 /\ (act.load.raised = NoRaise =>
                       /\ act.load.mesh # NoMesh
                       /\ Presentable(act.load.mesh) \/ act.op = "standalone"
                       /\ (act.load.auto = 0 /\ act.load.texture_paths # <<>>)
                             => act.load.found # <<>>)

\* The descriptor's scan failed after one entry, a material file's scan
\* failed after one reference, and the load returned a mesh.
C8_Witness ==
    /\ ScanRun
    /\ act.load.obj_err /\ act.load.mtl_files = <<MatMtl>>
    /\ act.load.failed = <<MatMtl>> /\ act.load.texture_paths = <<BodyJPG>>
    /\ act.load.raised = NoRaise
    /\ act.load.mesh # NoMesh

\* ------------------------------------------------------------ failures
\* The two windows' load buttons, with a file chosen in the dialog.
WindowLoad == act.op \in {"load_obj_mesh", "load_mesh"} /\ act.arg # NoPath
ErrorLogged ==
    \E k \in {"err_loading_obj", "err_loading_mesh"} : Logged(k, act.arg)
\* The load of the mesh failed, as the specification counts it: the chosen
\* path does not exist, or the library's load raised.
MeshLoadFailed ==
    \/ ~exists(act.arg)
    \/ act.load.raised \in {"FileNotFoundError", "read_triangle_mesh",
                            "compute_vertex_normals"}

\* C9 as stated: when the load of the mesh fails, the failure is logged, the
\* operation is aborted and the viewer is not opened for that action: nothing
\* is displayed.
C9_FailedLoadShowsNothing ==
    (WindowLoad /\ MeshLoadFailed) =>
        /\ ErrorLogged
        /\ act.shown = <<>>

\* What C9 says, for the window of testing.py alone, whose loader tests the
\* path before it reads it.
C9_FailedLoadShowsNothing_testing ==
    (WindowLoad /\ MeshLoadFailed /\ act.op = "load_obj_mesh") =>
        /\ ErrorLogged
        /\ act.shown = <<>>

\* The window of GUI_Application.py after "Load Mesh" on a path that does
\* not exist: the viewer was opened, on the mesh an earlier load left in the
\* temporary file.
C9_StaleMeshShown ==
    /\ act.op = "load_mesh" /\ ~exists(act.arg)
    /\ act.shown # <<>> /\ ~act.shown[1].empty
    /\ ~ErrorLogged

\* The message a handler logs for each kind of failure.
GuiOps == {"load_obj_mesh", "load_mesh", "import_to_unity", "open_mixamo"}
MessageFor(f) ==
    CASE f = "obj_scan" -> "warn_obj"
      [] f = "mtl_scan" -> "warn_mtl"
      [] f = "read_image" -> "err_texture"
      [] f = "viewer" -> "err_visualization"
      [] f \in {"makedirs", "copy"} -> "err_copying"
      [] OTHER -> IF act.op = "load_obj_mesh" THEN "err_loading_obj"
                  ELSE "err_loading_mesh"
FailureKinds == {MessageFor(act.failures[i]) : i \in 1..Len(act.failures)}
CountFailures(k) ==
    Cardinality({i \in 1..Len(act.failures) : MessageFor(act.failures[i]) = k})
CountMessages(k) ==
    Cardinality({i \in 1..Len(act.log) : act.log[i].k = k})
\* Every exception raised inside the handler has a message of its own.
ExceptionsLogged == \A k \in FailureKinds : CountMessages(k) >= CountFailures(k)
\* Nothing is read a second time after it failed.
NoRetry ==
    /\ Len(act.load.images) <= Len(act.load.found)
    /\ Len(act.load.found) <= Len(act.load.texture_paths)
    /\ Len(act.load.failed) <= Len(act.load.mtl_files)
    /\ \A k \in FailureKinds \ {"warn_mtl", "err_texture"} : CountFailures(k) = 1
\* The file the load button was given could not be read.
MeshFileUnread == WindowLoad /\ ~Readable(act.arg)
FailureMessages ==
    {"warn_obj", "warn_mtl", "err_texture", "err_visualization",
     "err_copying", "err_loading_obj", "err_loading_mesh"}

\* C10 as stated: in every action of the two windows, every failure of a file
\* read, library call or file copy has a logged message of its own, no
\* exception leaves the handler, nothing is retried, and the window is idle
\* again.
C10_EveryFailureLoggedAndIdle ==
    act.op \in GuiOps =>
        /\ ~act.escaped /\ ui = "idle"
        /\ ExceptionsLogged
        /\ MeshFileUnread => \E k \in FailureMessages : CountMessages(k) > 0
        /\ NoRetry

\* What C10 says of the failures that raise an exception.
C10_EveryExceptionLoggedAndIdle ==
    act.op \in GuiOps =>
        /\ ~act.escaped /\ ui = "idle"
        /\ ExceptionsLogged
        /\ NoRetry

\* "Load Mesh" of GUI_Application.py on a file that cannot be read: the only
\* message is the one of a successful load.
C10_UnreadFileLoggedAsLoaded ==
    /\ act.op = "load_mesh" /\ MeshFileUnread
    /\ act.log = <<Msg("loaded_without_textures", act.arg)>>
    /\ ui = "idle"

\* ------------------------------------------------------------ one material file
\* Step 2 of either loader applied once to a material file of up to
\* MaxMtlLines lines: references with map options, with two spaces, with a
\* tab after the keyword, with white space around the line, a keyword with
\* no argument, and a line of another keyword.
OptionsRef == <<"-s", SP, "1", SP, "1", SP, "1", SP>> \o TexPng
MtlLineSet ==
    { MapKdLine(BodyJPG),
      MapKdLine(OptionsRef),
      <<"map_Kd", SP, SP>> \o TexPng,
      <<"map_Kd", TAB>> \o TexPng,
      <<"map_Kd", TAB, "-s", SP, "1", SP>> \o TexPng,
      BareMapKd,
      <<SP, "map_Kd", SP>> \o TexPng \o <<SP>>,
      <<"newmtl", SP, "skin">> }

InitMtl ==
    /\ app \in {"testing", "new"}
    /\ \E matText \in SeqsUpTo(MtlLineSet, MaxMtlLines) :
          fs = MakeFs(FALSE, <<MtllibLine(MatMtl)>>,
                      [n \in {MatMtl} |-> "text"], [n \in {MatMtl} |-> matText], {})
    /\ mesh = NoMesh
    /\ mesh_file = NoPath
    /\ ui = "idle"
    /\ act = ActStart

MtlResult(r) ==
    [ActStart EXCEPT !.op = "analyze_mtl", !.arg = join(Dir, MatMtl), !.dir = Dir,
                     !.log = r.log,
                     !.load.mtl_files = <<MatMtl>>,
                     !.load.texture_paths = r.texture_paths,
                     !.load.failed = r.failed,
                     !.failures = [i \in 1..Len(r.failed) |-> "mtl_scan"]]

\* testing.py, step 2.
ApplyAnalyzeMtl ==
    /\ app = "testing" /\ act.op = "init"
    /\ act' = MtlResult(AnalyzeMtl(Dir, <<MatMtl>>, MtlStart, FALSE))
    /\ UNCHANGED <<fs, app, mesh, mesh_file, ui>>

\* new.py, step 2.
ApplyAnalyzeMtlCli ==
    /\ app = "new" /\ act.op = "init"
    /\ act' = MtlResult(AnalyzeMtl(Dir, <<MatMtl>>, MtlStart, TRUE))
    /\ UNCHANGED <<fs, app, mesh, mesh_file, ui>>

NextMtl == ApplyAnalyzeMtl \/ ApplyAnalyzeMtlCli

SpecMtl == InitMtl /\ [][NextMtl]_vars

\* ------------------------------------------------------------ references
MtlRun == act.op = "analyze_mtl"
\* The lines of the scanned file that begin with the diffuse-map keyword, in
\* file order, white space at the ends of a line apart.
RECURSIVE MapKdLines(_)
MapKdLines(lines) ==
    IF lines = <<>> THEN <<>>
    ELSE (IF IsKeywordLine(Head(lines), "map_Kd") THEN <<Strip(Head(lines))>> ELSE <<>>)
         \o MapKdLines(Tail(lines))
\* The reference as the specification words it: the line without the keyword
\* and without the one separator after it.
ReferenceOf(line) == SubSeq(line, 3, Len(line))
SpaceAfterKeyword(line) == Len(line) >= 2 /\ line[2] = SP

\* C11 as stated: every line beginning with map_Kd yields one reference, the
\* text after the keyword and one separating space, options included.
C11_EveryLineYieldsItsText ==
    MtlRun =>
        LET kw == MapKdLines(fs.text[act.arg])
        IN act.load.texture_paths = [i \in 1..Len(kw) |-> ReferenceOf(kw[i])]

\* C11 amended: in a file whose map_Kd lines all have a space right after the
\* keyword, every such line yields one reference, the text after the keyword
\* and that one space, verbatim (options and further spaces included), and
\* the scan raises nothing.  In any file the references are those of the
\* map_Kd lines before the first one that holds no space at all (the scan of
\* the file ends there with a warning), each being the text after the first
\* space of its line.
C11_ReferenceIsTextAfterFirstSpace ==
    MtlRun =>
        LET lines == fs.text[act.arg]
            kw == MapKdLines(lines)
        IN /\ (\A i \in 1..Len(kw) : SpaceAfterKeyword(kw[i])) =>
                 /\ act.load.texture_paths = [i \in 1..Len(kw) |-> ReferenceOf(kw[i])]
                 /\ act.load.failed = <<>>
           /\ act.load.texture_paths
                 = KeywordArgs(lines, "map_Kd", FirstBad(lines, "map_Kd") - 1)
           /\ (act.load.failed # <<>>) = (FirstBad(lines, "map_Kd") <= Len(lines))

\* Two map_Kd lines, one of them with map options: two references, the
\* options kept.
C11_Witness ==
    /\ MtlRun
    /\ fs.text[act.arg] = <<MapKdLine(OptionsRef), MapKdLine(BodyJPG)>>
    /\ act.load.texture_paths = <<OptionsRef, BodyJPG>>

\* ------------------------------------------------------------ window fields
Window == app \in {"testing", "GUI_Application"}

\* C12 as stated: after any sequence of load actions the window's mesh and
\* mesh_file are both unset, or mesh is the mesh that was loaded from
\* mesh_file.
C12_MeshIsOfMeshFile ==
    Window =>
        \/ mesh_file = NoPath /\ mesh = NoMesh
        \/ mesh_file # NoPath /\ mesh # NoMesh /\ mesh.src = mesh_file

\* A failed load has left mesh_file naming the file that was not loaded
\* while mesh is still the mesh of the file loaded before it.
C12_PreviousMeshUnderNewName ==
    /\ Window
    /\ act.load.raised # NoRaise
    /\ mesh_file = GonePath
    /\ mesh # NoMesh /\ mesh.src = ObjPath /\ ~mesh.empty

\* A failed first load has left mesh_file set and mesh unset.
C12_NameWithoutMesh ==
    /\ Window
    /\ act.load.raised # NoRaise
    /\ mesh_file # NoPath /\ mesh = NoMesh

====
